---- MODULE Spec2Model ----
(***************************************************************************)
(* Model of seastar::internal::io_request                                  *)
(* (include/seastar/core/internal/io_request.hh).                          *)
(*                                                                         *)
(* A request is a tag, a descriptor and three 8-byte unions (_attr, _ptr,  *)
(* _size).  The unions are modelled as their object representation: a      *)
(* sequence of eight bytes, least significant byte first (the x86-64 /     *)
(* aarch64 / ppc64le layouts Seastar is built for).  A constructor writes  *)
(* only the members it names; every byte it does not write keeps what the  *)
(* storage held before construction (the variable raw).  That content is   *)
(* indeterminate: any eight bytes per member, each member independently of *)
(* the others, and different from one build and one run to the next.  The  *)
(* model does not commit to any value for such a byte: it is the abstract  *)
(* byte Indeterminate, which stands for every value 0 .. 255 at once and   *)
(* is equal to none of them, so nothing can be proved of it that does not  *)
(* hold whatever the byte is.  Where the storage had an occupant before (a *)
(* destroyed request whose storage is reused, or the target of an          *)
(* assignment that is built in place) an unwritten member may also keep    *)
(* exactly the bytes that occupant left, however many requests have been   *)
(* built there before.  A value computed from an indeterminate byte is     *)
(* indeterminate itself.  The implicit assignment operator replaces all    *)
(* members of a live request.                                              *)
(* 64-bit values and pointers are byte sequences as well, so no value is   *)
(* ever truncated by the width of the model's integers; int values are     *)
(* integers in -2^31 .. 2^31-1, encoded in two's complement when stored.   *)
(***************************************************************************)
EXTENDS Integers, Sequences, FiniteSets, TLC

VARIABLES
    pc,     \* "idle": no request exists; "live": a request was constructed
    req,    \* the io_request object: [op, fd, attr, ptr, size]; when idle,
            \* the bytes the last request left in its storage
    raw,    \* content of the request's storage before its constructor ran
            \* (Overwritten where the constructor overwrites it unread)
    made,   \* the factory that built req and the arguments it was given
    ret     \* the last accessor called on req and the value it returned

vars == <<pc, req, raw, made, ret>>

----------------------------------------------------------------------------
(* Object representation *)

Byte == 0 .. 255

\* a byte no constructor has written: its value is whatever the build and the
\* run leave there; it stands for any value of Byte and equals none
Indeterminate == 256
Indet4 == <<Indeterminate, Indeterminate, Indeterminate, Indeterminate>>
Indet8 == Indet4 \o Indet4

\* no byte of b is indeterminate
Determinate(b) == \A i \in 1 .. Len(b) : b[i] \in Byte

\* the int read from bytes of which at least one is indeterminate
IndeterminateInt == "indeterminate"

Zero4 == <<0, 0, 0, 0>>
Ones4 == <<255, 255, 255, 255>>
Zero8 == Zero4 \o Zero4
Ones8 == Ones4 \o Ones4

IntMin == -2147483647 - 1
IntMax == 2147483647

\* the four bytes of an int (two's complement, little endian)
IntToBytes(v) ==
    LET u == IF v >= 0 THEN v ELSE (v + 2147483647) + 1
    IN  << u % 256,
           (u \div 256) % 256,
           (u \div 65536) % 256,
           (u \div 16777216) + (IF v < 0 THEN 128 ELSE 0) >>

\* the int held in four bytes
BytesToInt(b) ==
    LET low == b[1] + 256 * b[2] + 65536 * b[3] + 16777216 * (b[4] % 128)
    IN  IF ~Determinate(b) THEN IndeterminateInt
        ELSE IF b[4] >= 128 THEN (low - 2147483647) - 1 ELSE low

\* integral conversion int -> uint64_t (value modulo 2^64: sign extension)
IntToU64(v) == IntToBytes(v) \o (IF v < 0 THEN Ones4 ELSE Zero4)

\* write a 4-byte member of an 8-byte union: the other four bytes are untouched
StoreLow4(slot, b4) == b4 \o SubSeq(slot, 5, 8)

\* read a 4-byte member of an 8-byte union
LoadLow4(slot) == SubSeq(slot, 1, 4)

----------------------------------------------------------------------------
(* Input values *)

NullPtr == Zero8
\* a user-space address 0x00007ffdc0de00i0
Addr(i) == <<(16 * i) % 256, 0, 222, 192, 253, 127, 0, 0>>
Ptrs == { NullPtr, Addr(1) }

\* int descriptors: an invalid one and a small valid one
FDs == { -1, 7 }

\* uint64_t positions: 4096, 2^64 - 1
Positions == { <<0, 16, 0, 0, 0, 0, 0, 0>>,
               Ones8 }

\* size_t lengths: 512, 2^32 + 1
Sizes == { <<0, 2, 0, 0, 0, 0, 0, 0>>,
           <<1, 0, 0, 0, 1, 0, 0, 0>> }

\* int flags / events: INT_MIN, 0x4000 (MSG_NOSIGNAL)
Ints == { IntMin, 16384 }

\* socklen_t (32-bit unsigned) values: 16, 2^32 - 1
Socklens == { <<16, 0, 0, 0>>, Ones4 }

\* std::vector<iovec>: data() and size()
Vectors == { [data |-> NullPtr, size |-> Zero8] }
           \cup { [data |-> Addr(2), size |-> <<3, 0, 0, 0, 0, 0, 0, 0>>] }

\* content of an 8-byte member of storage that held no request before the
\* constructor runs (a stack slot, a fresh allocation, a temporary): the
\* code puts no constraint on it, so every byte is indeterminate
Garbage == { Indet8 }

\* a byte of the storage that the constructor overwrites without reading it
Overwritten == 0 - 1
Dead4 == <<Overwritten, Overwritten, Overwritten, Overwritten>>
Dead8 == Dead4 \o Dead4

\* what a member may hold before the constructor runs: indeterminate bytes,
\* or exactly the content w the previous occupant of the storage left in it
\* (always possible, whatever the number of requests built there before)
Cand(w) == Garbage \cup {w}

\* the storage as each constructor finds it: A, P and S are the contents the
\* members _attr, _ptr and _size may have; the bytes the constructor
\* overwrites are abstracted
Storage_msghdr(A, P, S) ==
    { [attr |-> Dead4 \o SubSeq(a, 5, 8), ptr |-> Dead8, size |-> sz] : a \in A, sz \in S }
Storage_connect(A, P, S) ==
    { [attr |-> a, ptr |-> Dead8, size |-> Dead4 \o SubSeq(sz, 5, 8)] : a \in A, sz \in S }
Storage_accept(A, P, S) ==
    { [attr |-> Dead4 \o SubSeq(a, 5, 8), ptr |-> Dead8, size |-> Dead8] : a \in A }
Storage_pos_addr(A, P, S) ==
    { [attr |-> Dead8, ptr |-> Dead8, size |-> Dead8] }
Storage_pos_iovec(A, P, S) ==
    { [attr |-> Dead8, ptr |-> Dead8, size |-> Dead8] }
Storage_fd(A, P, S) ==
    { [attr |-> a, ptr |-> q, size |-> sz] : a \in A, q \in P, sz \in S }
Storage_events(A, P, S) ==
    { [attr |-> Dead4 \o SubSeq(a, 5, 8), ptr |-> q, size |-> sz] : a \in A, q \in P, sz \in S }
Storage_addr(A, P, S) ==
    { [attr |-> a, ptr |-> Dead8, size |-> sz] : a \in A, sz \in S }

\* the bytes a destroyed request leaves behind
NoReq(r) == [op |-> "none", attr |-> r.attr, ptr |-> r.ptr, size |-> r.size]
NoCall == [factory |-> "none"]
NoRet == [name |-> "none"]

----------------------------------------------------------------------------
(* Constructors: m is the storage the object is built in *)

io_request_msghdr(m, op, d, fl, msg) ==
    [op |-> op, fd |-> d,
     attr |-> StoreLow4(m.attr, IntToBytes(fl)),
     ptr |-> msg,
     size |-> m.size]

io_request_connect(m, op, d, sa, sl) ==
    [op |-> op, fd |-> d,
     attr |-> m.attr,
     ptr |-> sa,
     size |-> StoreLow4(m.size, sl)]

\* variant: the length pointer is stored through the 4-byte socklen member
io_request_accept_narrow(m, op, d, fl, sa, sl) ==
    [op |-> op, fd |-> d,
     attr |-> StoreLow4(m.attr, IntToBytes(fl)),
     ptr |-> sa,
     size |-> StoreLow4(m.size, LoadLow4(sl))]

io_request_accept(m, op, d, fl, sa, sl) ==
    [op |-> op, fd |-> d,
     attr |-> StoreLow4(m.attr, IntToBytes(fl)),
     ptr |-> sa,
     size |-> sl]

\* variant: the position parameter is 32 bits wide
io_request_pos_addr_trunc(m, op, d, p, a, sz) ==
    [op |-> op, fd |-> d, attr |-> LoadLow4(p) \o Zero4, ptr |-> a, size |-> sz]

io_request_pos_addr(m, op, d, p, a, sz) ==
    [op |-> op, fd |-> d, attr |-> p, ptr |-> a, size |-> sz]

io_request_pos_iovec(m, op, d, p, a, sz) ==
    [op |-> op, fd |-> d, attr |-> p, ptr |-> a, size |-> sz]

io_request_fd(m, op, d) ==
    [op |-> op, fd |-> d, attr |-> m.attr, ptr |-> m.ptr, size |-> m.size]

io_request_events(m, op, d, ev) ==
    [op |-> op, fd |-> d,
     attr |-> StoreLow4(m.attr, IntToBytes(ev)),
     ptr |-> m.ptr,
     size |-> m.size]

\* variant: the token is stored in the size slot
io_request_addr_in_size(m, op, d, a) ==
    [op |-> op, fd |-> d, attr |-> m.attr, ptr |-> m.ptr, size |-> a]

io_request_addr(m, op, d, a) ==
    [op |-> op, fd |-> d, attr |-> m.attr, ptr |-> a, size |-> m.size]

----------------------------------------------------------------------------
(* Predicates and accessors *)

\* variant: the recvmsg case label is missing
is_read_no_recvmsg(r) ==
    CASE r.op = "read" -> TRUE
      [] r.op = "readv" -> TRUE
      [] r.op = "recv" -> TRUE
      [] OTHER -> FALSE

is_read(r) ==
    CASE r.op = "read" -> TRUE
      [] r.op = "readv" -> TRUE
      [] r.op = "recvmsg" -> TRUE
      [] r.op = "recv" -> TRUE
      [] OTHER -> FALSE

\* variant: the sendmsg case label is missing
is_write_no_sendmsg(r) ==
    CASE r.op = "write" -> TRUE
      [] r.op = "writev" -> TRUE
      [] r.op = "send" -> TRUE
      [] OTHER -> FALSE

\* variant: fdatasync is counted as a write
is_write_with_fdatasync(r) ==
    CASE r.op = "write" -> TRUE
      [] r.op = "writev" -> TRUE
      [] r.op = "send" -> TRUE
      [] r.op = "sendmsg" -> TRUE
      [] r.op = "fdatasync" -> TRUE
      [] OTHER -> FALSE

is_write(r) ==
    CASE r.op = "write" -> TRUE
      [] r.op = "writev" -> TRUE
      [] r.op = "send" -> TRUE
      [] r.op = "sendmsg" -> TRUE
      [] OTHER -> FALSE

opcode(r) == r.op
fd(r) == r.fd
pos(r) == r.attr
\* variant: the int member is read through a 16-bit type
flags_short(r) == BytesToInt(<<r.attr[1], r.attr[2], 0, 0>>)

flags(r) == BytesToInt(LoadLow4(r.attr))
events(r) == BytesToInt(LoadLow4(r.attr))
address(r) == r.ptr
iov(r) == r.ptr
posix_sockaddr(r) == r.ptr
msghdr(r) == r.ptr
size(r) == r.size
iov_len(r) == r.size
socklen(r) == LoadLow4(r.size)
socklen_ptr(r) == r.size

----------------------------------------------------------------------------
(* Factories *)

make_read(m, d, p, a, sz) == io_request_pos_addr(m, "read", d, p, a, sz)
make_readv(m, d, p, v) == io_request_pos_iovec(m, "readv", d, p, v.data, v.size)
make_recv(m, d, a, sz, fl) == io_request_pos_addr(m, "recv", d, IntToU64(fl), a, sz)
make_recvmsg(m, d, msg, fl) == io_request_msghdr(m, "recvmsg", d, fl, msg)
make_send(m, d, a, sz, fl) == io_request_pos_addr(m, "send", d, IntToU64(fl), a, sz)
\* variant: the tag of the neighbouring factory
make_sendmsg_as_recvmsg(m, d, msg, fl) == io_request_msghdr(m, "recvmsg", d, fl, msg)

make_sendmsg(m, d, msg, fl) == io_request_msghdr(m, "sendmsg", d, fl, msg)
make_write(m, d, p, a, sz) == io_request_pos_addr(m, "write", d, p, a, sz)
make_writev(m, d, p, v) == io_request_pos_iovec(m, "writev", d, p, v.data, v.size)
make_fdatasync(m, d) == io_request_fd(m, "fdatasync", d)
make_accept(m, d, sa, slp, fl) == io_request_accept(m, "accept", d, fl, sa, slp)
make_connect(m, d, sa, sl) == io_request_connect(m, "connect", d, sa, sl)
make_poll_add(m, d, ev) == io_request_events(m, "poll_add", d, ev)
make_poll_remove(m, d, a) == io_request_addr(m, "poll_remove", d, a)
make_cancel(m, d, a) == io_request_addr(m, "cancel", d, a)

----------------------------------------------------------------------------
(* Initial state: no request has been built.  A factory call builds the   *)
(* request in storage m and returns it.                                  *)

Init ==
    /\ pc = "idle"
    /\ req = [op |-> "none", attr |-> Zero8, ptr |-> Zero8, size |-> Zero8]
    /\ raw = [attr |-> Dead8, ptr |-> Dead8, size |-> Dead8]
    /\ made = NoCall
    /\ ret = NoRet

\* make_read returns a request built in storage whose last occupant left req
Build_make_read ==
    \E m \in Storage_pos_addr(Cand(req.attr), Cand(req.ptr), Cand(req.size)),
       d \in FDs, p \in Positions, a \in Ptrs, sz \in Sizes :
        /\ req' = make_read(m, d, p, a, sz)
        /\ raw' = m
        /\ made' = [factory |-> "make_read", fd |-> d, pos |-> p, address |-> a, size |-> sz]

Call_make_read ==
    /\ pc = "idle"
    /\ Build_make_read
    /\ pc' = "live"
    /\ ret' = NoRet

\* make_readv returns a request built in storage whose last occupant left req
Build_make_readv ==
    \E m \in Storage_pos_iovec(Cand(req.attr), Cand(req.ptr), Cand(req.size)),
       d \in FDs, p \in Positions, v \in Vectors :
        /\ req' = make_readv(m, d, p, v)
        /\ raw' = m
        /\ made' = [factory |-> "make_readv", fd |-> d, pos |-> p, iov |-> v]

Call_make_readv ==
    /\ pc = "idle"
    /\ Build_make_readv
    /\ pc' = "live"
    /\ ret' = NoRet

\* make_recv returns a request built in storage whose last occupant left req
Build_make_recv ==
    \E m \in Storage_pos_addr(Cand(req.attr), Cand(req.ptr), Cand(req.size)),
       d \in FDs, a \in Ptrs, sz \in Sizes, fl \in Ints :
        /\ req' = make_recv(m, d, a, sz, fl)
        /\ raw' = m
        /\ made' = [factory |-> "make_recv", fd |-> d, address |-> a, size |-> sz, flags |-> fl]

Call_make_recv ==
    /\ pc = "idle"
    /\ Build_make_recv
    /\ pc' = "live"
    /\ ret' = NoRet

\* make_recvmsg returns a request built in storage whose last occupant left req
Build_make_recvmsg ==
    \E m \in Storage_msghdr(Cand(req.attr), Cand(req.ptr), Cand(req.size)),
       d \in FDs, msg \in Ptrs, fl \in Ints :
        /\ req' = make_recvmsg(m, d, msg, fl)
        /\ raw' = m
        /\ made' = [factory |-> "make_recvmsg", fd |-> d, msg |-> msg, flags |-> fl]

Call_make_recvmsg ==
    /\ pc = "idle"
    /\ Build_make_recvmsg
    /\ pc' = "live"
    /\ ret' = NoRet

\* make_send returns a request built in storage whose last occupant left req
Build_make_send ==
    \E m \in Storage_pos_addr(Cand(req.attr), Cand(req.ptr), Cand(req.size)),
       d \in FDs, a \in Ptrs, sz \in Sizes, fl \in Ints :
        /\ req' = make_send(m, d, a, sz, fl)
        /\ raw' = m
        /\ made' = [factory |-> "make_send", fd |-> d, address |-> a, size |-> sz, flags |-> fl]

Call_make_send ==
    /\ pc = "idle"
    /\ Build_make_send
    /\ pc' = "live"
    /\ ret' = NoRet

\* make_sendmsg returns a request built in storage whose last occupant left req
Build_make_sendmsg ==
    \E m \in Storage_msghdr(Cand(req.attr), Cand(req.ptr), Cand(req.size)),
       d \in FDs, msg \in Ptrs, fl \in Ints :
        /\ req' = make_sendmsg(m, d, msg, fl)
        /\ raw' = m
        /\ made' = [factory |-> "make_sendmsg", fd |-> d, msg |-> msg, flags |-> fl]

Call_make_sendmsg ==
    /\ pc = "idle"
    /\ Build_make_sendmsg
    /\ pc' = "live"
    /\ ret' = NoRet

\* make_write returns a request built in storage whose last occupant left req
Build_make_write ==
    \E m \in Storage_pos_addr(Cand(req.attr), Cand(req.ptr), Cand(req.size)),
       d \in FDs, p \in Positions, a \in Ptrs, sz \in Sizes :
        /\ req' = make_write(m, d, p, a, sz)
        /\ raw' = m
        /\ made' = [factory |-> "make_write", fd |-> d, pos |-> p, address |-> a, size |-> sz]

Call_make_write ==
    /\ pc = "idle"
    /\ Build_make_write
    /\ pc' = "live"
    /\ ret' = NoRet

\* make_writev returns a request built in storage whose last occupant left req
Build_make_writev ==
    \E m \in Storage_pos_iovec(Cand(req.attr), Cand(req.ptr), Cand(req.size)),
       d \in FDs, p \in Positions, v \in Vectors :
        /\ req' = make_writev(m, d, p, v)
        /\ raw' = m
        /\ made' = [factory |-> "make_writev", fd |-> d, pos |-> p, iov |-> v]

Call_make_writev ==
    /\ pc = "idle"
    /\ Build_make_writev
    /\ pc' = "live"
    /\ ret' = NoRet

\* make_fdatasync returns a request built in storage whose last occupant left req
Build_make_fdatasync ==
    \E m \in Storage_fd(Cand(req.attr), Cand(req.ptr), Cand(req.size)),
       d \in FDs :
        /\ req' = make_fdatasync(m, d)
        /\ raw' = m
        /\ made' = [factory |-> "make_fdatasync", fd |-> d]

Call_make_fdatasync ==
    /\ pc = "idle"
    /\ Build_make_fdatasync
    /\ pc' = "live"
    /\ ret' = NoRet

\* make_accept returns a request built in storage whose last occupant left req
Build_make_accept ==
    \E m \in Storage_accept(Cand(req.attr), Cand(req.ptr), Cand(req.size)),
       d \in FDs, sa \in Ptrs, slp \in Ptrs, fl \in Ints :
        /\ req' = make_accept(m, d, sa, slp, fl)
        /\ raw' = m
        /\ made' = [factory |-> "make_accept", fd |-> d, addr |-> sa, addrlen |-> slp, flags |-> fl]

Call_make_accept ==
    /\ pc = "idle"
    /\ Build_make_accept
    /\ pc' = "live"
    /\ ret' = NoRet

\* make_connect returns a request built in storage whose last occupant left req
Build_make_connect ==
    \E m \in Storage_connect(Cand(req.attr), Cand(req.ptr), Cand(req.size)),
       d \in FDs, sa \in Ptrs, sl \in Socklens :
        /\ req' = make_connect(m, d, sa, sl)
        /\ raw' = m
        /\ made' = [factory |-> "make_connect", fd |-> d, addr |-> sa, addrlen |-> sl]

Call_make_connect ==
    /\ pc = "idle"
    /\ Build_make_connect
    /\ pc' = "live"
    /\ ret' = NoRet

\* make_poll_add returns a request built in storage whose last occupant left req
Build_make_poll_add ==
    \E m \in Storage_events(Cand(req.attr), Cand(req.ptr), Cand(req.size)),
       d \in FDs, ev \in Ints :
        /\ req' = make_poll_add(m, d, ev)
        /\ raw' = m
        /\ made' = [factory |-> "make_poll_add", fd |-> d, events |-> ev]

Call_make_poll_add ==
    /\ pc = "idle"
    /\ Build_make_poll_add
    /\ pc' = "live"
    /\ ret' = NoRet

\* make_poll_remove returns a request built in storage whose last occupant left req
Build_make_poll_remove ==
    \E m \in Storage_addr(Cand(req.attr), Cand(req.ptr), Cand(req.size)),
       d \in FDs, a \in Ptrs :
        /\ req' = make_poll_remove(m, d, a)
        /\ raw' = m
        /\ made' = [factory |-> "make_poll_remove", fd |-> d, token |-> a]

Call_make_poll_remove ==
    /\ pc = "idle"
    /\ Build_make_poll_remove
    /\ pc' = "live"
    /\ ret' = NoRet

\* make_cancel returns a request built in storage whose last occupant left req
Build_make_cancel ==
    \E m \in Storage_addr(Cand(req.attr), Cand(req.ptr), Cand(req.size)),
       d \in FDs, a \in Ptrs :
        /\ req' = make_cancel(m, d, a)
        /\ raw' = m
        /\ made' = [factory |-> "make_cancel", fd |-> d, token |-> a]

Call_make_cancel ==
    /\ pc = "idle"
    /\ Build_make_cancel
    /\ pc' = "live"
    /\ ret' = NoRet

----------------------------------------------------------------------------
(* Calls of the const members on the live request *)

Call_is_read ==
    /\ pc = "live"
    /\ ret' = [name |-> "is_read", val |-> is_read(req)]
    /\ UNCHANGED <<pc, req, raw, made>>

Call_is_write ==
    /\ pc = "live"
    /\ ret' = [name |-> "is_write", val |-> is_write(req)]
    /\ UNCHANGED <<pc, req, raw, made>>

Call_opcode ==
    /\ pc = "live"
    /\ ret' = [name |-> "opcode", val |-> opcode(req)]
    /\ UNCHANGED <<pc, req, raw, made>>

Call_fd ==
    /\ pc = "live"
    /\ ret' = [name |-> "fd", val |-> fd(req)]
    /\ UNCHANGED <<pc, req, raw, made>>

\* variant: reading the position clears it
Call_pos_clearing ==
    /\ pc = "live"
    /\ ret' = [name |-> "pos", val |-> pos(req)]
    /\ req' = [req EXCEPT !.attr = Zero8]
    /\ UNCHANGED <<pc, raw, made>>

Call_pos ==
    /\ pc = "live"
    /\ ret' = [name |-> "pos", val |-> pos(req)]
    /\ UNCHANGED <<pc, req, raw, made>>

Call_flags ==
    /\ pc = "live"
    /\ ret' = [name |-> "flags", val |-> flags(req)]
    /\ UNCHANGED <<pc, req, raw, made>>

Call_events ==
    /\ pc = "live"
    /\ ret' = [name |-> "events", val |-> events(req)]
    /\ UNCHANGED <<pc, req, raw, made>>

Call_address ==
    /\ pc = "live"
    /\ ret' = [name |-> "address", val |-> address(req)]
    /\ UNCHANGED <<pc, req, raw, made>>

Call_iov ==
    /\ pc = "live"
    /\ ret' = [name |-> "iov", val |-> iov(req)]
    /\ UNCHANGED <<pc, req, raw, made>>

Call_posix_sockaddr ==
    /\ pc = "live"
    /\ ret' = [name |-> "posix_sockaddr", val |-> posix_sockaddr(req)]
    /\ UNCHANGED <<pc, req, raw, made>>

Call_msghdr ==
    /\ pc = "live"
    /\ ret' = [name |-> "msghdr", val |-> msghdr(req)]
    /\ UNCHANGED <<pc, req, raw, made>>

Call_size ==
    /\ pc = "live"
    /\ ret' = [name |-> "size", val |-> size(req)]
    /\ UNCHANGED <<pc, req, raw, made>>

Call_iov_len ==
    /\ pc = "live"
    /\ ret' = [name |-> "iov_len", val |-> iov_len(req)]
    /\ UNCHANGED <<pc, req, raw, made>>

Call_socklen ==
    /\ pc = "live"
    /\ ret' = [name |-> "socklen", val |-> socklen(req)]
    /\ UNCHANGED <<pc, req, raw, made>>

Call_socklen_ptr ==
    /\ pc = "live"
    /\ ret' = [name |-> "socklen_ptr", val |-> socklen_ptr(req)]
    /\ UNCHANGED <<pc, req, raw, made>>


\* implicit copy / move assignment: *this = make_...(...) replaces every
\* member of the live request by the members of the assigned value.  The
\* members the factory leaves unwritten are indeterminate and depend on the
\* build: the residue of the temporary's stack slot when the temporary is
\* materialised and copied (indeterminate bytes), or what the target held
\* when the value is built in place; each member independently
operator_assign ==
    /\ pc = "live"
    /\ \/ Build_make_read
       \/ Build_make_readv
       \/ Build_make_recv
       \/ Build_make_recvmsg
       \/ Build_make_send
       \/ Build_make_sendmsg
       \/ Build_make_write
       \/ Build_make_writev
       \/ Build_make_fdatasync
       \/ Build_make_accept
       \/ Build_make_connect
       \/ Build_make_poll_add
       \/ Build_make_poll_remove
       \/ Build_make_cancel
    /\ pc' = "live"
    /\ ret' = NoRet

\* the request is destroyed; its bytes stay in the storage
Discard ==
    /\ pc = "live"
    /\ pc' = "idle"
    /\ req' = NoReq(req)
    /\ raw' = [attr |-> Dead8, ptr |-> Dead8, size |-> Dead8]
    /\ made' = NoCall
    /\ ret' = NoRet

Next ==
    \/ Call_make_read
    \/ Call_make_readv
    \/ Call_make_recv
    \/ Call_make_recvmsg
    \/ Call_make_send
    \/ Call_make_sendmsg
    \/ Call_make_write
    \/ Call_make_writev
    \/ Call_make_fdatasync
    \/ Call_make_accept
    \/ Call_make_connect
    \/ Call_make_poll_add
    \/ Call_make_poll_remove
    \/ Call_make_cancel
    \/ Call_is_read
    \/ Call_is_write
    \/ Call_opcode
    \/ Call_fd
    \/ Call_pos
    \/ Call_flags
    \/ Call_events
    \/ Call_address
    \/ Call_iov
    \/ Call_posix_sockaddr
    \/ Call_msghdr
    \/ Call_size
    \/ Call_iov_len
    \/ Call_socklen
    \/ Call_socklen_ptr
    \/ operator_assign
    \/ Discard

Spec == Init /\ [][Next]_vars

----------------------------------------------------------------------------
(* Shape of the state *)

IsWord(w) == /\ Len(w) = 8
             /\ \A i \in 1 .. 8 : w[i] \in Byte \cup {Indeterminate}

IsRawWord(w) == /\ Len(w) = 8
                /\ \A i \in 1 .. 8 : w[i] \in Byte \cup {Indeterminate, Overwritten}

TypeOK ==
    /\ pc \in {"idle", "live"}
    /\ IsWord(req.attr) /\ IsWord(req.ptr) /\ IsWord(req.size)
    /\ IsRawWord(raw.attr) /\ IsRawWord(raw.ptr) /\ IsRawWord(raw.size)
    /\ pc = "idle" => req.op = "none" /\ made = NoCall /\ ret = NoRet
    /\ pc = "live" => /\ req.fd \in IntMin .. IntMax
                      /\ req.op # "none"
                      /\ made.factory # "none"

----------------------------------------------------------------------------
(* The factory table: the tag each factory is documented to produce *)

FactoryTable ==
    [f \in {"make_read", "make_readv", "make_write", "make_writev", "make_fdatasync",
            "make_recv", "make_recvmsg", "make_send", "make_sendmsg", "make_accept",
            "make_connect", "make_poll_add", "make_poll_remove", "make_cancel"} |->
        CASE f = "make_read" -> "read"
          [] f = "make_readv" -> "readv"
          [] f = "make_write" -> "write"
          [] f = "make_writev" -> "writev"
          [] f = "make_fdatasync" -> "fdatasync"
          [] f = "make_recv" -> "recv"
          [] f = "make_recvmsg" -> "recvmsg"
          [] f = "make_send" -> "send"
          [] f = "make_sendmsg" -> "sendmsg"
          [] f = "make_accept" -> "accept"
          [] f = "make_connect" -> "connect"
          [] f = "make_poll_add" -> "poll_add"
          [] f = "make_poll_remove" -> "poll_remove"
          [] f = "make_cancel" -> "cancel"]

ReadOps == {"read", "readv", "recv", "recvmsg"}
WriteOps == {"write", "writev", "send", "sendmsg"}
OtherOps == {"fdatasync", "accept", "connect", "poll_add", "poll_remove", "cancel"}

Live == pc = "live"
By(f) == pc = "live" /\ made.factory = f
Got(n) == pc = "live" /\ ret.name = n

----------------------------------------------------------------------------
\* C1: for each of the fourteen factories and every descriptor, opcode() of
\* the constructed request is the tag the factory table assigns to the
\* factory and fd() is the descriptor that was supplied.
C1_TagAndDescriptor ==
    Live => /\ made.factory \in DOMAIN FactoryTable
            /\ opcode(req) = FactoryTable[made.factory]
            /\ fd(req) = made.fd
            /\ (Got("opcode") => ret.val = FactoryTable[made.factory])
            /\ (Got("fd") => ret.val = made.fd)

C1_Witness ==
    /\ By("make_sendmsg")
    /\ made.fd = -1
    /\ Got("opcode")
    /\ ret.val = "sendmsg"

\* C2: is_read() is true exactly for the operations read, readv, recv and
\* recvmsg, and false for the other ten.
C2_IsRead ==
    Live => /\ (is_read(req) <=> opcode(req) \in ReadOps)
            /\ (is_read(req) <=> made.factory \in {"make_read", "make_readv", "make_recv", "make_recvmsg"})
            /\ (Got("is_read") => (ret.val <=> opcode(req) \in ReadOps))

C2_Witness ==
    /\ By("make_recvmsg")
    /\ Got("is_read")
    /\ ret.val = TRUE

\* C3: is_write() is true exactly for the operations write, writev, send and
\* sendmsg, and false for the other ten.
C3_IsWrite ==
    Live => /\ (is_write(req) <=> opcode(req) \in WriteOps)
            /\ (is_write(req) <=> made.factory \in {"make_write", "make_writev", "make_send", "make_sendmsg"})
            /\ (Got("is_write") => (ret.val <=> opcode(req) \in WriteOps))

C3_Witness ==
    /\ By("make_write")
    /\ made.fd = 7
    /\ made.pos = <<0, 16, 0, 0, 0, 0, 0, 0>>
    /\ made.size = <<0, 2, 0, 0, 0, 0, 0, 0>>
    /\ Got("is_write")
    /\ ret.val = TRUE

\* C4: is_read() and is_write() are never both true, and both are false
\* exactly for fdatasync, accept, connect, poll_add, poll_remove and cancel.
C4_Exclusive ==
    Live => /\ ~(is_read(req) /\ is_write(req))
            /\ ((~is_read(req) /\ ~is_write(req)) <=> opcode(req) \in OtherOps)

C4_Witness ==
    /\ By("make_poll_add")
    /\ made.events = 16384
    /\ Got("is_write")
    /\ ret.val = FALSE
    /\ ~is_read(req)

\* C5: make_read / make_write return the supplied 64-bit position, buffer
\* pointer and byte length from pos(), address() and size(); make_readv /
\* make_writev return the supplied position from pos(), the vector's element
\* array from iov() and its element count from iov_len().
C5_FileRoundTrip ==
    /\ (By("make_read") \/ By("make_write")) =>
            /\ pos(req) = made.pos
            /\ address(req) = made.address
            /\ size(req) = made.size
    /\ (By("make_readv") \/ By("make_writev")) =>
            /\ pos(req) = made.pos
            /\ iov(req) = made.iov.data
            /\ iov_len(req) = made.iov.size

C5_Witness ==
    /\ By("make_read")
    /\ made.pos = Ones8
    /\ made.size = <<1, 0, 0, 0, 1, 0, 0, 0>>
    /\ Got("pos")
    /\ ret.val = Ones8

\* C6: flags() returns the supplied int flags for make_recv, make_send,
\* make_recvmsg, make_sendmsg and make_accept, and events() the supplied int
\* events for make_poll_add, negative values included; make_recv / make_send
\* store the flags widened to 64 bits in the position member and also return
\* the supplied pointer and length; make_recvmsg / make_sendmsg return the
\* supplied message header.
C6_FlagsRoundTrip ==
    /\ (By("make_recv") \/ By("make_send")) =>
            /\ flags(req) = made.flags
            /\ pos(req) = IntToU64(made.flags)
            /\ address(req) = made.address
            /\ size(req) = made.size
    /\ (By("make_recvmsg") \/ By("make_sendmsg")) =>
            /\ flags(req) = made.flags
            /\ msghdr(req) = made.msg
    /\ By("make_accept") => flags(req) = made.flags
    /\ By("make_poll_add") => events(req) = made.events

C6_Witness ==
    /\ By("make_recv")
    /\ made.flags = IntMin
    /\ Got("flags")
    /\ ret.val = IntMin
    /\ req.attr = <<0, 0, 0, 128, 255, 255, 255, 255>>

\* C7: make_accept keeps the address pointer, the address-length pointer
\* itself (all eight bytes of the size slot) and the flags; make_connect
\* keeps the address pointer and the address length by value.
C7_AcceptConnect ==
    /\ By("make_accept") =>
            /\ posix_sockaddr(req) = made.addr
            /\ socklen_ptr(req) = made.addrlen
            /\ flags(req) = made.flags
    /\ By("make_connect") =>
            /\ posix_sockaddr(req) = made.addr
            /\ socklen(req) = made.addrlen

C7_Witness ==
    /\ By("make_accept")
    /\ made.addr = NullPtr
    /\ made.addrlen = Addr(1)
    /\ SubSeq(raw.attr, 5, 8) = Indet4
    /\ Got("socklen_ptr")
    /\ ret.val = Addr(1)

\* C8: make_poll_remove and make_cancel store the token in the slot that
\* make_read uses for the buffer pointer, address() returns the token, and
\* the two requests differ only in the tag.
C8_TokenSlot ==
    /\ (By("make_poll_remove") \/ By("make_cancel")) =>
            /\ address(req) = made.token
            /\ req.ptr = make_read(raw, made.fd, Zero8, made.token, Zero8).ptr
    /\ By("make_poll_remove") =>
            /\ opcode(req) = "poll_remove"
            /\ make_cancel(raw, made.fd, made.token) = [req EXCEPT !.op = "cancel"]
    /\ By("make_cancel") =>
            /\ opcode(req) = "cancel"
            /\ make_poll_remove(raw, made.fd, made.token) = [req EXCEPT !.op = "poll_remove"]

C8_Witness ==
    /\ By("make_cancel")
    /\ made.token = Addr(1)
    /\ raw.attr = Indet8
    /\ raw.size = Zero8
    /\ Got("address")
    /\ ret.val = Addr(1)

\* the value a const member returns on request r
AccessorResult(n, r) ==
    CASE n = "is_read" -> is_read(r)
      [] n = "is_write" -> is_write(r)
      [] n = "opcode" -> opcode(r)
      [] n = "fd" -> fd(r)
      [] n = "pos" -> pos(r)
      [] n = "flags" -> flags(r)
      [] n = "events" -> events(r)
      [] n = "address" -> address(r)
      [] n = "iov" -> iov(r)
      [] n = "posix_sockaddr" -> posix_sockaddr(r)
      [] n = "msghdr" -> msghdr(r)
      [] n = "size" -> size(r)
      [] n = "iov_len" -> iov_len(r)
      [] n = "socklen" -> socklen(r)
      [] n = "socklen_ptr" -> socklen_ptr(r)

\* a step that is a call of one of the fifteen public const operations
AccessorStep == pc = "live" /\ pc' = "live" /\ ret'.name # "none"

\* C9: no call of a public operation (is_read, is_write, opcode, fd, pos,
\* flags, events, address, iov, posix_sockaddr, msghdr, size, iov_len,
\* socklen, socklen_ptr) changes the request: the tag, descriptor, attribute,
\* data reference and size stay what they were, so each call returns the
\* value those fields determine.
C9_NeverMutated ==
    [][AccessorStep =>
            /\ req' = req
            /\ ret'.val = AccessorResult(ret'.name, req)]_vars

C9_Witness ==
    /\ By("make_write")
    /\ made.pos = Ones8
    /\ Got("pos")
    /\ ret.val = Ones8
    /\ req.attr = Ones8

NoAttrFactories == {"make_fdatasync", "make_connect", "make_poll_remove", "make_cancel"}

\* C10: for make_fdatasync, make_connect, make_poll_remove and make_cancel
\* the attribute is zero: pos(), flags() and events() all read zero.  The
\* constructors behind these factories never write _attr: it is
\* indeterminate, or what the previous occupant of the storage left there,
\* and nothing makes it zero.  (pos() is compared first: when it is zero the
\* bytes that flags() and events() decode are determinate.)
C10_AttrZero ==
    (Live /\ made.factory \in NoAttrFactories) =>
        /\ pos(req) = Zero8
        /\ flags(req) = 0
        /\ events(req) = 0

====
